---- MODULE Spec2Model ----
(***************************************************************************)
(* Particle-swarm extrinsic calibration of the two eye cameras             *)
(* (src/src/stereoDisparity/disparityThread.h: Parameters, Particle,       *)
(* Optimizer, EyesCalibration::addData, EyesCalibration::runCalibration).  *)
(*                                                                         *)
(* Reals are modelled in fixed point on a grid:                            *)
(*   - a translation component is an integer number of steps of 0.05 m,    *)
(*   - an angle is an integer number of quarter turns (pi/2 rad), so that  *)
(*     rpy2dcm/dcm2rpy are exact (every sine and cosine is -1, 0 or 1),    *)
(*   - a cost (metres and radians summed, as the code sums them) is an     *)
(*     integer number of units of 0.005.                                   *)
(* The default bounds matrix lim (+-0.1 m, +-pi, +-pi/2, +-pi) is exactly  *)
(* representable: +-2, +-2, +-1, +-2 steps.  Rand::scalar(a,b) yields the  *)
(* grid points of [a,b].  The weights omega, phi_p, phi_g are configured   *)
(* to integers, and the coefficients of Rand::vector(0,1) are the end      *)
(* points 0 and 1, so that the velocity update is exact integer algebra.   *)
(***************************************************************************)
EXTENDS Integers, Sequences, FiniteSets, TLC

\* ---------------------------------------------------------------- scalars

\* Length of a Particle's pos and vel (Particle(): pos(6,0.0), vel(6,0.0)),
\* and of the rows of lim (lim.resize(6,2)).
Dim == 6

\* std::numeric_limits<double>::infinity(): above every finite cost and time.
Infinity == 1000000

\* Cost units (0.005) per translation step (0.05 m).
TStep == 10

\* Cost units (0.005) per quarter turn (pi/2 = 1.5708 rad).
AStep == 314

\* Numerator and denominator of the regularisation weight 0.1 of evaluate().
RegNum == 1

RegDen == 10

\* The stagnation threshold 0.005 of step(), in cost units.
StagnationThreshold == 1

\* The period (in iterations) of the stagnation test of step().
StagnationPeriod == 100

\* The number of true results of step() after which runCalibration() yields.
YieldPeriod == 10

\* Range of the translation velocities of randomize(): 1e-4 m, in steps of
\* 0.05 m (0.002 of a step: the only grid point of the range is 0).
VelTMax == 0

\* Range of the angular velocities of randomize(): 1 degree, in quarter turns
\* (0.011 of a quarter turn: the only grid point of the range is 0).
VelRMax == 0

Abs(a) == IF a < 0 THEN -a ELSE a

Min(a, b) == IF b < a THEN b ELSE a

Max(a, b) == IF a < b THEN b ELSE a

\* floor(sqrt(n)) by bisection on lo..hi (lo*lo <= n < (hi+1)*(hi+1)).
RECURSIVE SqrtIn(_, _, _)
SqrtIn(n, lo, hi) ==
    IF lo >= hi THEN lo
    ELSE LET mid == (lo + hi + 1) \div 2
         IN  IF mid * mid <= n THEN SqrtIn(n, mid, hi) ELSE SqrtIn(n, lo, mid - 1)

Sqrt(n) == SqrtIn(n, 0, 46340)

\* ---------------------------------------------------------------- vectors

\* yarp Vector::subVector(first,last), 0-based and inclusive as in the code.
subVector(v, first, last) == SubSeq(v, first + 1, last + 1)

\* operator- of two vectors of 3 components.
VecSub3(a, b) == << a[1] - b[1], a[2] - b[2], a[3] - b[3] >>

\* operator- of two vectors of 6 components.
VecSub6(a, b) ==
    << a[1] - b[1], a[2] - b[2], a[3] - b[3], a[4] - b[4], a[5] - b[5], a[6] - b[6] >>

RECURSIVE SumSq(_, _)
SumSq(v, k) == IF k = 0 THEN 0 ELSE v[k] * v[k] + SumSq(v, k - 1)

\* norm() of a vector of translation steps, in cost units.
normT(v) == Sqrt(TStep * TStep * SumSq(v, Len(v)))

\* norm() of a vector of quarter turns, in cost units.
normR(v) == Sqrt(AStep * AStep * SumSq(v, Len(v)))

\* norm() of a 6-vector (3 translation steps, 3 quarter turns), in cost units.
normPose(v) ==
    Sqrt(TStep * TStep * SumSq(subVector(v, 0, 2), 3)
         + AStep * AStep * SumSq(subVector(v, 3, 5), 3))

\* --------------------------------------------------------------- matrices

\* A default-constructed yarp Matrix (0 x 0).
EmptyMatrix == << >>

eye4 == << <<1, 0, 0, 0>>, <<0, 1, 0, 0>>, <<0, 0, 1, 0>>, <<0, 0, 0, 1>> >>

\* Entry (i,j) of the product of the 4x4 matrices A and B.
Dot(A, B, i, j) ==
    A[i][1] * B[1][j] + A[i][2] * B[2][j] + A[i][3] * B[3][j] + A[i][4] * B[4][j]

MatRow(A, B, i) == << Dot(A, B, i, 1), Dot(A, B, i, 2), Dot(A, B, i, 3), Dot(A, B, i, 4) >>

\* operator* of two 4x4 matrices.
MatMul(A, B) == << MatRow(A, B, 1), MatRow(A, B, 2), MatRow(A, B, 3), MatRow(A, B, 4) >>

\* Matrix::getCol(c), c 0-based.
getCol(H, c) == << H[1][c + 1], H[2][c + 1], H[3][c + 1], H[4][c + 1] >>

\* Matrix::setCol(c,v), c 0-based: the first Len(v) entries of the column.
setCol(H, c, v) ==
    LET row(i) == IF i <= Len(v) THEN [H[i] EXCEPT ![c + 1] = v[i]] ELSE H[i]
    IN  << row(1), row(2), row(3), row(4) >>

\* Cosine and sine of k quarter turns.
Cos4(k) == CASE k % 4 = 0 -> 1 [] k % 4 = 1 -> 0 [] k % 4 = 2 -> -1 [] OTHER -> 0

Sin4(k) == CASE k % 4 = 0 -> 0 [] k % 4 = 1 -> 1 [] k % 4 = 2 -> 0 [] OTHER -> -1

\* atan2(s,c) in quarter turns, for (s,c) a unit vector of the grid.
Atan2(s, c) == CASE c > 0 -> 0 [] c < 0 -> 2 [] s > 0 -> 1 [] s < 0 -> -1 [] OTHER -> 0

\* iCub::ctrl::rpy2dcm(<<roll,pitch,yaw>>) = Rz(yaw)*Ry(pitch)*Rx(roll).
rpy2dcm(v) ==
    LET cr == Cos4(v[1])  sr == Sin4(v[1])
        cp == Cos4(v[2])  sp == Sin4(v[2])
        cy == Cos4(v[3])  sy == Sin4(v[3])
        Rx == << <<1, 0, 0, 0>>, <<0, cr, -sr, 0>>, <<0, sr, cr, 0>>, <<0, 0, 0, 1>> >>
        Ry == << <<cp, 0, sp, 0>>, <<0, 1, 0, 0>>, <<-sp, 0, cp, 0>>, <<0, 0, 0, 1>> >>
        Rz == << <<cy, -sy, 0, 0>>, <<sy, cy, 0, 0>>, <<0, 0, 1, 0>>, <<0, 0, 0, 1>> >>
    IN  MatMul(Rz, MatMul(Ry, Rx))

\* asin(s) in quarter turns, for s = -1, 0 or 1.
Asin(s) == s

\* iCub::ctrl::dcm2rpy(R) = <<roll,pitch,yaw>>, with its two singular branches
\* (pitch = +-pi/2, where roll is set to 0 and yaw takes the whole rotation).
dcm2rpy(R) ==
    IF R[3][1] < 1
    THEN IF R[3][1] > -1
         THEN << Atan2(R[3][2], R[3][3]), Asin(-R[3][1]), Atan2(R[2][1], R[1][1]) >>
         ELSE << 0, 1, -Atan2(-R[2][3], R[2][2]) >>
    ELSE << 0, -1, Atan2(-R[2][3], R[2][2]) >>

\* iCub::ctrl::SE3inv(H): the rigid inverse [R^T, -R^T t].
SE3inv(H) ==
    LET Rt(i, j) == H[j][i]
        tr(i) == -(Rt(i, 1) * H[1][4] + Rt(i, 2) * H[2][4] + Rt(i, 3) * H[3][4])
        row(i) == << Rt(i, 1), Rt(i, 2), Rt(i, 3), tr(i) >>
    IN  << row(1), row(2), row(3), <<0, 0, 0, 1>> >>

\* ---------------------------------------------------------- the optimizer

\* Particle(): pos(6,0.0), vel(6,0.0), cost(+infinity).
Particle == [pos |-> <<0, 0, 0, 0, 0, 0>>, vel |-> <<0, 0, 0, 0, 0, 0>>, cost |-> Infinity]

\* A getExtrinsics() that mirrors the translation x[0] and forgets the yaw x[5].
getExtrinsicsMirrorX(v, Hl, Hr) ==
    IF Len(v) >= 6
    THEN LET y == [v EXCEPT ![1] = -v[1]]
         IN  [ok |-> TRUE,
              Hl |-> setCol(rpy2dcm(subVector(y, 3, 5)), 3, subVector(y, 0, 2)),
              Hr |-> setCol(rpy2dcm(subVector(v, 3, 5)), 3, subVector(v, 0, 2))]
    ELSE [ok |-> FALSE, Hl |-> Hl, Hr |-> Hr]

\* A getExtrinsics() that clears its outputs on the failure path.
getExtrinsicsClearing(v, Hl, Hr) ==
    IF Len(v) >= 6
    THEN LET y == [v EXCEPT ![1] = -v[1], ![6] = -v[6]]
         IN  [ok |-> TRUE,
              Hl |-> setCol(rpy2dcm(subVector(y, 3, 5)), 3, subVector(y, 0, 2)),
              Hr |-> setCol(rpy2dcm(subVector(v, 3, 5)), 3, subVector(v, 0, 2))]
    ELSE [ok |-> FALSE, Hl |-> EmptyMatrix, Hr |-> EmptyMatrix]

\* A getExtrinsics() that builds Hl from x itself, without the mirror.
getExtrinsicsNoMirror(v, Hl, Hr) ==
    IF Len(v) >= 6
    THEN [ok |-> TRUE,
          Hl |-> setCol(rpy2dcm(subVector(v, 3, 5)), 3, subVector(v, 0, 2)),
          Hr |-> setCol(rpy2dcm(subVector(v, 3, 5)), 3, subVector(v, 0, 2))]
    ELSE [ok |-> FALSE, Hl |-> Hl, Hr |-> Hr]

\* Optimizer::getExtrinsics(x,Hl,Hr): the returned flag and the two output
\* matrices, which keep their previous contents on the failure path.
getExtrinsics(v, Hl, Hr) ==
    IF Len(v) >= 6
    THEN LET y == [v EXCEPT ![1] = -v[1], ![6] = -v[6]]
         IN  [ok |-> TRUE,
              Hl |-> setCol(rpy2dcm(subVector(y, 3, 5)), 3, subVector(y, 0, 2)),
              Hr |-> setCol(rpy2dcm(subVector(v, 3, 5)), 3, subVector(v, 0, 2))]
    ELSE [ok |-> FALSE, Hl |-> Hl, Hr |-> Hr]

\* The contribution of sample d to the cost of a particle at pos (the body of
\* the loop of evaluate()).
SampleCost(d, pos, H) ==
    LET Hl_ == MatMul(d.eye_kin_left, H.Hl)
        Hr_ == MatMul(d.eye_kin_right, H.Hr)
        D   == MatMul(SE3inv(Hr_), Hl_)
    IN  normT(VecSub3(subVector(getCol(d.fundamental, 3), 0, 2), subVector(getCol(D, 3), 0, 2)))
        + normR(VecSub3(dcm2rpy(d.fundamental), dcm2rpy(D)))
        + (RegNum * normT(subVector(pos, 0, 2))) \div RegDen

RECURSIVE SumCost(_, _, _, _)
SumCost(store, pos, H, i) ==
    IF i = 0 THEN 0 ELSE SumCost(store, pos, H, i - 1) + SampleCost(store[i], pos, H)

\* A cost left at the +infinity of Particle() when the store is empty.
costUnset(store, pos) ==
    LET H == getExtrinsics(pos, EmptyMatrix, EmptyMatrix)
    IN  IF Len(store) > 0
        THEN SumCost(store, pos, H, Len(store)) \div Len(store)
        ELSE Infinity

\* The cost evaluate() computes for a particle at pos over the sample store.
cost(store, pos) ==
    LET H == getExtrinsics(pos, EmptyMatrix, EmptyMatrix)
    IN  IF Len(store) > 0
        THEN SumCost(store, pos, H, Len(store)) \div Len(store)
        ELSE 0

\* Rand::scalar(a,b): the grid points between a and b.
RandScalar(a, b) == Min(a, b)..Max(a, b)

\* The positions randomize() can draw: component j from lim(j,0)..lim(j,1).
RECURSIVE PosDraws(_, _)
PosDraws(lim, j) ==
    IF j = 0 THEN {<< >>}
    ELSE {Append(v, s) : v \in PosDraws(lim, j - 1), s \in RandScalar(lim[j][1], lim[j][2])}

\* ------------------------------------------------------------- the inputs

\* Largest swarm explored.
MaxParticles == 2

\* Longest sample store explored by the specification of the store alone.
MaxStore == 4

\* Largest sample store explored.
MaxSamples == 1

\* std::numeric_limits<int>::max(), for an int narrowed to 8 bits: the
\* default maxIter and the last value of iter before iter++ overflows.
IntMax == 127

\* A small iteration cap.
SmallIter == 2

\* The most step() calls a direct user of the Optimizer makes after an init().
MaxApiSteps == 3

\* The most init() calls a direct user makes on one Optimizer.
MaxInits == 2

\* Last reading of the clock Time::now().
MaxNow == 1

\* A finite time cap maxT.
SmallT == 1

\* A positive target cost (parameters.cost).
TargetCost == 1

\* A calibration sample with identity kinematics and fundamental matrix f.
Sample(f) == [eye_kin_left |-> eye4, eye_kin_right |-> eye4, fundamental |-> f]

\* The populated samples explored: a fundamental that is a translation of 2
\* steps along x, and one that is a half turn of yaw.
SampleSet ==
    {Sample(setCol(eye4, 3, <<2, 0, 0>>)), Sample(rpy2dcm(<<0, 0, 2>>))}

\* CalibrationData(): three default-constructed matrices.
CalibrationData ==
    [eye_kin_left |-> EmptyMatrix, eye_kin_right |-> EmptyMatrix, fundamental |-> EmptyMatrix]

\* Bounds matrices: lim[j] = <<lim(j,0), lim(j,1)>>.  LimX1 lets only x vary,
\* by one step; LimXYaw lets x and yaw vary by one step; LimInverted has the
\* lower bound of x above the upper one.
LimX1 == << <<-1, 1>>, <<0, 0>>, <<0, 0>>, <<0, 0>>, <<0, 0>>, <<0, 0>> >>

LimXYaw == << <<-1, 1>>, <<0, 0>>, <<0, 0>>, <<0, 0>>, <<0, 0>>, <<-1, 1>> >>

LimInverted == << <<1, -1>>, <<0, 0>>, <<0, 0>>, <<0, 0>>, <<0, 0>>, <<0, 0>> >>

\* A part of the default bounds in which x and yaw vary, each from 0 to one step.
LimXYawUpper == << <<0, 1>>, <<0, 0>>, <<0, 0>>, <<0, 0>>, <<0, 0>>, <<0, 1>> >>

\* Parameters as configured through getParameters() before init().  The
\* defaults of Parameters() are maxIter = IntMax, maxT = Infinity, cost = 0.
Parameters(n, mi, mt, om, c, l) ==
    [numParticles |-> n, maxIter |-> mi, maxT |-> mt,
     omega |-> om, phi_p |-> 1, phi_g |-> 1, cost |-> c, lim |-> l]

\* The parameters of an Optimizer nobody configures, as in runCalibration():
\* those of Parameters(), with the swarm of 20 narrowed to MaxParticles, the
\* bounds to LimX1, and omega, phi_p, phi_g to 0, 1, 1.
DefaultParameters == Parameters(MaxParticles, IntMax, Infinity, 0, 0, LimX1)

\* The same default parameters with particles that vary in two dimensions.
DriverParameters == Parameters(MaxParticles, IntMax, Infinity, 0, 0, LimXYawUpper)

\* The configurations a direct user of the Optimizer sets.
ParameterSet ==
    {Parameters(n, mi, mt, 1, c, LimX1) :
        n \in 0..MaxParticles, mi \in {0, SmallIter, IntMax}, mt \in {SmallT, Infinity},
        c \in {0, TargetCost}}
    \cup {Parameters(1, SmallIter, Infinity, 1, 0, LimXYaw),
          Parameters(1, SmallIter, Infinity, 1, 0, LimInverted)}

\* The vectors a direct user passes to getExtrinsics(): of 0, 1, 3, 5 and 7
\* components, and of 6 components with x, pitch and yaw varying.
LimArg == << <<-1, 1>>, <<2, 2>>, <<0, 0>>, <<1, 1>>, <<0, 1>>, <<-1, 1>> >>

ArgSet ==
    {<< >>, <<1>>, <<1, 2, 0>>, <<1, 2, 0, 1, 1>>, <<1, 2, 0, 1, 1, -1, 3>>}
    \cup PosDraws(LimArg, Dim)

\* The sample stores and the positions within the bounds of ParameterSet,
\* and cost() tabulated over them once (cost() reads nothing else).
Stores == UNION {[1..n -> SampleSet] : n \in 0..MaxSamples}

Positions == UNION {PosDraws(par.lim, Dim) : par \in ParameterSet}

RECURSIVE Tabulate(_)
Tabulate(keys) ==
    IF keys = {} THEN << >>
    ELSE LET k == CHOOSE k \in keys : TRUE
         IN  (k :> cost(k[1], k[2])) @@ Tabulate(keys \ {k})

CostTable == Tabulate(Stores \X Positions)

\* An evaluate() that accumulates onto the particle's previous cost (without
\* the particle.cost=0.0 before the loop).
evaluateAccumulating(store, particle) ==
    [particle EXCEPT !.cost = Min(Infinity, particle.cost + cost(store, particle.pos))]

\* Optimizer::evaluate(particle) over the sample store: the particle with its
\* cost set (the value evaluate() returns is that cost).
evaluate(store, particle) ==
    [particle EXCEPT !.cost =
        IF <<store, particle.pos>> \in DOMAIN CostTable
        THEN CostTable[<<store, particle.pos>>]
        ELSE cost(store, particle.pos)]

\* The velocities randomize() can draw.
VelDraws ==
    {<<a, b, c, d, e, f>> : a \in RandScalar(-VelTMax, VelTMax),
                            b \in RandScalar(-VelTMax, VelTMax),
                            c \in RandScalar(-VelTMax, VelTMax),
                            d \in RandScalar(-VelRMax, VelRMax),
                            e \in RandScalar(-VelRMax, VelRMax),
                            f \in RandScalar(-VelRMax, VelRMax)}

\* A randomize() that restarts the swarm: personal bests follow the particles.
randomizeRestart(sw, draw) ==
    LET xs == [i \in 1..Len(sw.x) |->
                  [sw.x[i] EXCEPT !.pos = draw[i][1], !.vel = draw[i][2]]]
    IN  [sw EXCEPT !.x = xs, !.p = xs]

\* Optimizer::randomize() on sw = [x, p, g]: draw[i] is the <<pos, vel>> drawn
\* for particle i; the particle's cost is not touched.
randomize(sw, draw) ==
    [sw EXCEPT !.x = [i \in 1..Len(sw.x) |->
                         [sw.x[i] EXCEPT !.pos = draw[i][1], !.vel = draw[i][2]]]]

RandomizeDraws(n, lim) == [1..n -> PosDraws(lim, Dim) \X VelDraws]

\* Rand::vector(rand_min,rand_max): coefficient vectors with components 0 or 1,
\* for a coefficient vector that multiplies the difference d.  In a dimension
\* whose bounds coincide every position, personal best and global best of a
\* non-empty swarm sit on that bound; there, and where d is 0, the coefficient
\* multiplies 0 and only the value 0 is drawn for it.
RECURSIVE RandVector(_, _, _)
RandVector(lim, d, j) ==
    IF j = 0 THEN {<< >>}
    ELSE {Append(v, s) : v \in RandVector(lim, d, j - 1),
                         s \in IF lim[j][1] = lim[j][2] \/ d[j] = 0
                               THEN {0} ELSE RandScalar(0, 1)}

\* A difference not known when the coefficients are drawn: g.pos-x[i].pos for
\* i > 1, since the particles before i may replace g in the same generation.
NotKnown == <<1, 1, 1, 1, 1, 1>>

\* The <<r1, r2>> drawn for particles 1..n in a generation of step().
RECURSIVE StepDraws(_, _, _, _, _)
StepDraws(xs, ps, gb, lim, n) ==
    IF n = 0 THEN {<< >>}
    ELSE LET d1 == VecSub6(ps[n].pos, xs[n].pos)
             d2 == IF n = 1 THEN VecSub6(gb.pos, xs[n].pos) ELSE NotKnown
         IN  {Append(rr, <<r1, r2>>) : rr \in StepDraws(xs, ps, gb, lim, n - 1),
                                       r1 \in RandVector(lim, d1, Dim),
                                       r2 \in RandVector(lim, d2, Dim)}

\* A clamp that forgets the upper bound.
ClampLowerOnly(v, lo, hi) == Max(v, lo)

\* The clamp of step(): std::min(std::max(v,lo),hi).
Clamp(v, lo, hi) == Min(Max(v, lo), hi)

\* A loop body that evaluates a copy of the particle: x[i].cost is not written.
moveParticleByCopy(store, par, sw, i, r) ==
    LET xi  == sw.x[i]
        pb  == sw.p[i]
        v(k) == par.omega * xi.vel[k]
                + par.phi_p * r[1][k] * (pb.pos[k] - xi.pos[k])
                + par.phi_g * r[2][k] * (sw.g.pos[k] - xi.pos[k])
        vel == << v(1), v(2), v(3), v(4), v(5), v(6) >>
        c(k) == Clamp(xi.pos[k] + vel[k], par.lim[k][1], par.lim[k][2])
        pos == << c(1), c(2), c(3), c(4), c(5), c(6) >>
        xm  == [xi EXCEPT !.pos = pos, !.vel = vel]
        f   == evaluate(store, xm).cost
        pn  == IF f < sw.p[i].cost THEN [xm EXCEPT !.cost = f] ELSE sw.p[i]
        gn  == IF f < sw.p[i].cost /\ f < sw.g.cost THEN pn ELSE sw.g
    IN  [x |-> [sw.x EXCEPT ![i] = xm], p |-> [sw.p EXCEPT ![i] = pn], g |-> gn]

\* A loop body that records a personal best only when it is a global best too.
moveParticleGlobalOnly(store, par, sw, i, r) ==
    LET xi  == sw.x[i]
        pb  == sw.p[i]
        v(k) == par.omega * xi.vel[k]
                + par.phi_p * r[1][k] * (pb.pos[k] - xi.pos[k])
                + par.phi_g * r[2][k] * (sw.g.pos[k] - xi.pos[k])
        vel == << v(1), v(2), v(3), v(4), v(5), v(6) >>
        c(k) == Clamp(xi.pos[k] + vel[k], par.lim[k][1], par.lim[k][2])
        pos == << c(1), c(2), c(3), c(4), c(5), c(6) >>
        xe  == evaluate(store, [xi EXCEPT !.pos = pos, !.vel = vel])
        f   == xe.cost
        pn  == IF f < sw.g.cost THEN [xe EXCEPT !.cost = f] ELSE sw.p[i]
        gn  == IF f < sw.g.cost THEN pn ELSE sw.g
    IN  [x |-> [sw.x EXCEPT ![i] = xe], p |-> [sw.p EXCEPT ![i] = pn], g |-> gn]

\* A loop body that also replaces a best by a position of equal cost (<=).
moveParticleOnTie(store, par, sw, i, r) ==
    LET xi  == sw.x[i]
        pb  == sw.p[i]
        v(k) == par.omega * xi.vel[k]
                + par.phi_p * r[1][k] * (pb.pos[k] - xi.pos[k])
                + par.phi_g * r[2][k] * (sw.g.pos[k] - xi.pos[k])
        vel == << v(1), v(2), v(3), v(4), v(5), v(6) >>
        c(k) == Clamp(xi.pos[k] + vel[k], par.lim[k][1], par.lim[k][2])
        pos == << c(1), c(2), c(3), c(4), c(5), c(6) >>
        xe  == evaluate(store, [xi EXCEPT !.pos = pos, !.vel = vel])
        f   == xe.cost
        pn  == IF f <= sw.p[i].cost THEN [xe EXCEPT !.cost = f] ELSE sw.p[i]
        gn  == IF f <= sw.p[i].cost /\ f <= sw.g.cost THEN pn ELSE sw.g
    IN  [x |-> [sw.x EXCEPT ![i] = xe], p |-> [sw.p EXCEPT ![i] = pn], g |-> gn]

\* A loop body that updates the personal best and forgets the global best.
moveParticleNoGlobal(store, par, sw, i, r) ==
    LET xi  == sw.x[i]
        pb  == sw.p[i]
        v(k) == par.omega * xi.vel[k]
                + par.phi_p * r[1][k] * (pb.pos[k] - xi.pos[k])
                + par.phi_g * r[2][k] * (sw.g.pos[k] - xi.pos[k])
        vel == << v(1), v(2), v(3), v(4), v(5), v(6) >>
        c(k) == Clamp(xi.pos[k] + vel[k], par.lim[k][1], par.lim[k][2])
        pos == << c(1), c(2), c(3), c(4), c(5), c(6) >>
        xe  == evaluate(store, [xi EXCEPT !.pos = pos, !.vel = vel])
        f   == xe.cost
        pn  == IF f < sw.p[i].cost THEN [xe EXCEPT !.cost = f] ELSE sw.p[i]
    IN  [x |-> [sw.x EXCEPT ![i] = xe], p |-> [sw.p EXCEPT ![i] = pn], g |-> sw.g]

\* The body of the particle loop of step() for particle i, with r = <<r1, r2>>,
\* on sw = [x, p, g].
moveParticle(store, par, sw, i, r) ==
    LET xi  == sw.x[i]
        pb  == sw.p[i]
        v(k) == par.omega * xi.vel[k]
                + par.phi_p * r[1][k] * (pb.pos[k] - xi.pos[k])
                + par.phi_g * r[2][k] * (sw.g.pos[k] - xi.pos[k])
        vel == << v(1), v(2), v(3), v(4), v(5), v(6) >>
        c(k) == Clamp(xi.pos[k] + vel[k], par.lim[k][1], par.lim[k][2])
        pos == << c(1), c(2), c(3), c(4), c(5), c(6) >>
        xe  == evaluate(store, [xi EXCEPT !.pos = pos, !.vel = vel])
        f   == xe.cost
        pn  == IF f < sw.p[i].cost THEN [xe EXCEPT !.cost = f] ELSE sw.p[i]
        gn  == IF f < sw.p[i].cost /\ f < sw.g.cost THEN pn ELSE sw.g
    IN  [x |-> [sw.x EXCEPT ![i] = xe], p |-> [sw.p EXCEPT ![i] = pn], g |-> gn]

\* The particle loop of step(): particles 1..i moved in order.
RECURSIVE moveSwarm(_, _, _, _, _)
moveSwarm(store, par, sw, rr, i) ==
    IF i = 0 THEN sw
    ELSE moveParticle(store, par, moveSwarm(store, par, sw, rr, i - 1), i, rr[i])

\* The loop of init(): p[1..i] evaluated in order, g replaced on improvement.
RECURSIVE evaluateBest(_, _, _)
evaluateBest(store, sw, i) ==
    IF i = 0 THEN sw
    ELSE LET s  == evaluateBest(store, sw, i - 1)
             pe == evaluate(store, s.p[i])
         IN  [s EXCEPT !.p[i] = pe, !.g = IF pe.cost < s.g.cost THEN pe ELSE s.g]

\* The mean distance of the particles from the global best (step()).
RECURSIVE SumDist(_, _, _)
SumDist(xs, gb, i) ==
    IF i = 0 THEN 0 ELSE SumDist(xs, gb, i - 1) + normPose(VecSub6(gb.pos, xs[i].pos))

meanDist(xs, gb) ==
    IF Len(xs) > 0 THEN SumDist(xs, gb, Len(xs)) \div Len(xs) ELSE SumDist(xs, gb, Len(xs))

\* A continuation predicate that goes on while the target cost is just met.
termOfCostMet(par, it, gb, el) == (it < par.maxIter) /\ (gb.cost >= par.cost) /\ (el < par.maxT)

\* A continuation predicate that allows one iteration more than maxIter.
termOfOneMore(par, it, gb, el) == (it <= par.maxIter) /\ (gb.cost > par.cost) /\ (el < par.maxT)

\* The continuation predicate of step().
termOf(par, it, gb, el) == (it < par.maxIter) /\ (gb.cost > par.cost) /\ (el < par.maxT)

\* ---------------------------------------------------------------- the state

VARIABLES
    data,               \* EyesCalibration::data, the sample store
    handle,             \* the reference addData() returned (an index of data), 0: none
    parameters,         \* Optimizer::parameters
    x, p, g,            \* Optimizer::x, p, g
    iter, t, t0,        \* Optimizer::iter, t, t0
    now,                \* the clock read by Time::now()
    pc,                 \* where the caller of the optimizer stands
    inits,              \* the number of init() calls on the Optimizer
    term,               \* the value the last step() since init() returned
    randomize_print,    \* the local randomize_print of that step()
    before,             \* [x, p, g] when that step() reached its stagnation test
    evaluated,          \* per particle, the least cost evaluate() returned since init()
    yields,             \* the number of Time::yield() calls of runCalibration()
    overflow,           \* whether an iter++ overflowed the int
    cnt,                \* the local cnt of runCalibration()
    ret,                \* what finalize() returned: NoParticle, a reference or a copy
    snapshot,           \* the value of the particle ret denoted when it was returned
    arg,                \* the vector of the last getExtrinsics() call of the caller
    ok,                 \* the value that call returned
    extrinsics_left,    \* the caller's output matrices
    extrinsics_right,
    result              \* the value runCalibration() returned

vars ==
    <<data, handle, parameters, x, p, g, iter, t, t0, now, pc, inits, term, randomize_print,
      before, evaluated, yields, overflow, cnt, ret, snapshot, arg, ok, extrinsics_left,
      extrinsics_right, result>>

optimizer == <<x, p, g, iter, t, t0, inits>>

observed == <<term, randomize_print, before, evaluated>>

outputs == <<arg, ok, extrinsics_left, extrinsics_right, result>>

\* A const Particle& bound to the member g of the Optimizer, a Particle
\* returned by value, and no particle returned yet.
RefToG == [kind |-> "reference", val |-> Particle]

Copy(particle) == [kind |-> "copy", val |-> particle]

NoParticle == [kind |-> "none", val |-> Particle]

\* The particle the caller reads through what finalize() returned.
Deref(r) == IF r.kind = "reference" THEN g ELSE r.val

Populated(store) == \A i \in 1..Len(store) : store[i] \in SampleSet

Init ==
    /\ data = << >>
    /\ handle = 0
    /\ parameters = DefaultParameters
    /\ x = << >> /\ p = << >> /\ g = Particle
    /\ iter = 0 /\ t = 0 /\ t0 = 0
    /\ now = 0
    /\ pc = "idle"
    /\ inits = 0
    /\ term = FALSE
    /\ randomize_print = FALSE
    /\ before = [x |-> << >>, p |-> << >>, g |-> Particle]
    /\ evaluated = << >>
    /\ yields = 0
    /\ overflow = FALSE
    /\ cnt = 0
    /\ ret = NoParticle
    /\ snapshot = Particle
    /\ arg = << >>
    /\ ok = FALSE
    /\ extrinsics_left = EmptyMatrix
    /\ extrinsics_right = EmptyMatrix
    /\ result = 0

\* ------------------------------------------------------- Optimizer methods

\* x.assign(numParticles,Particle()) of init().
assign(n) == [i \in 1..n |-> Particle]

\* The least cost evaluate() returned for each particle: the record so far
\* against the particles evaluate() has just been applied to.
leastCosts(least, xs) ==
    [i \in 1..Len(xs) |-> Min(least[i], xs[i].cost)]

\* Optimizer::init().
init ==
    /\ \E draw \in RandomizeDraws(parameters.numParticles, parameters.lim) :
        \E r \in {randomize([x |-> assign(parameters.numParticles), p |-> p, g |-> g], draw)} :
          \E e \in {evaluateBest(data, [r EXCEPT !.p = r.x], Len(r.x))} :
            /\ x' = e.x /\ p' = e.p /\ g' = e.g
            /\ evaluated' = leastCosts([i \in 1..Len(e.p) |-> Infinity], e.p)
    /\ iter' = 0
    /\ t0' = now
    /\ t' = 0
    /\ inits' = inits + 1
    /\ term' = FALSE
    /\ randomize_print' = FALSE
    /\ before' = [x |-> << >>, p |-> << >>, g |-> Particle]

\* iter++ on an int: past IntMax the behaviour is undefined, and the builds
\* either wrap, saturate or produce any other value.
Increment(i) == IF i < IntMax THEN {i + 1} ELSE {-IntMax - 1, IntMax, 0}

\* A stagnation test on the counter as it was before iter++.
stagnantBeforeIncrement(it, sw) ==
    ((it - 1) % StagnationPeriod) = 0 /\ meanDist(sw.x, sw.g) < StagnationThreshold

\* The stagnation test of step(): iter is a multiple of the period and the
\* mean distance from the global best is below the threshold.
stagnant(it, sw) ==
    (it % StagnationPeriod) = 0 /\ meanDist(sw.x, sw.g) < StagnationThreshold

\* Optimizer::step(); term' is the value it returns.
step ==
    \E it \in Increment(iter), rr \in StepDraws(x, p, g, parameters.lim, Len(x)),
       n \in now..Min(now + 1, MaxNow) :
      \E moved \in {moveSwarm(data, parameters, [x |-> x, p |-> p, g |-> g], rr, Len(x))} :
        \E scatter \in {stagnant(it, moved)} :
            /\ iter' = it
            /\ overflow' = (overflow \/ iter >= IntMax)
            /\ before' = moved
            /\ evaluated' = leastCosts(evaluated, moved.x)
            /\ \E draw \in IF scatter THEN RandomizeDraws(Len(x), parameters.lim)
                                      ELSE {<< >>} :
                  \E sw \in {IF scatter THEN randomize(moved, draw) ELSE moved} :
                      x' = sw.x /\ p' = sw.p /\ g' = sw.g
            /\ randomize_print' = scatter
            /\ now' = n
            /\ t' = n - t0
            /\ t0' = t0
            /\ inits' = inits
            /\ term' = termOf(parameters, it, g', n - t0)

\* A finalize() that returns the particle by value.
finalizeByValue ==
    /\ ret' = Copy(g)
    /\ snapshot' = g

\* Optimizer::finalize(): const Particle&, a reference to g.
finalize ==
    /\ ret' = RefToG
    /\ snapshot' = g

\* ---------------------------------------------------------- EyesCalibration

\* An addData() that puts the new record first (push_front) and returns a
\* reference to it.
push_front(max) ==
    /\ pc = "idle"
    /\ Len(data) < max
    /\ data' = <<CalibrationData>> \o data
    /\ handle' = 1
    /\ UNCHANGED <<yields, parameters, optimizer, now, pc, observed, overflow, cnt, ret,
                   snapshot, outputs>>

\* The body of EyesCalibration::addData(): data.push_back(d) of a default
\* record d and return data.back(), a reference to the last record of the
\* store; explored while the store holds fewer than max records.
push_back(max) ==
    /\ pc = "idle"
    /\ Len(data) < max
    /\ data' = Append(data, CalibrationData)
    /\ handle' = Len(data')
    /\ UNCHANGED <<yields, parameters, optimizer, now, pc, observed, overflow, cnt, ret,
                   snapshot, outputs>>

\* EyesCalibration::addData() on the stores the optimizer is run over.
addData == push_back(MaxSamples)

\* EyesCalibration::addData() on longer stores.
addDataStore == push_back(MaxStore)

\* The caller of addData() fills the record through the returned reference.
populate ==
    /\ pc = "idle"
    /\ handle # 0
    /\ \E s \in SampleSet : data' = [data EXCEPT ![handle] = s]
    /\ UNCHANGED <<yields, handle, parameters, optimizer, now, pc, observed, overflow, cnt,
                   ret, snapshot, outputs>>

\* runCalibration() up to its loop: Optimizer swarm(data); swarm.init(); cnt=0.
rcInit ==
    /\ pc = "idle"
    /\ Populated(data)
    /\ init
    /\ cnt' = 0
    /\ yields' = 0
    /\ pc' = "loop"
    /\ UNCHANGED <<data, handle, parameters, now, overflow, ret, snapshot, outputs>>

\* A loop that tests the counter before incrementing it (cnt++>=10).
rcStepPostIncrement ==
    /\ pc = "loop"
    /\ step
    /\ IF term'
       THEN IF cnt >= YieldPeriod
            THEN cnt' = cnt + 1 /\ pc' = "yield"
            ELSE cnt' = cnt + 1 /\ pc' = "loop"
       ELSE cnt' = cnt /\ pc' = "finalize"
    /\ UNCHANGED <<yields, data, handle, parameters, ret, snapshot, outputs>>

\* One evaluation of the loop condition swarm.step() and, when it is true,
\* the ++cnt>=10 test of the loop body.
rcStep ==
    /\ pc = "loop"
    /\ step
    /\ IF term'
       THEN IF cnt + 1 >= YieldPeriod
            THEN cnt' = cnt + 1 /\ pc' = "yield"
            ELSE cnt' = cnt + 1 /\ pc' = "loop"
       ELSE cnt' = cnt /\ pc' = "finalize"
    /\ UNCHANGED <<yields, data, handle, parameters, ret, snapshot, outputs>>

\* Time::yield(); cnt=0.
rcYield ==
    /\ pc = "yield"
    /\ cnt' = 0
    /\ yields' = yields + 1
    /\ pc' = "loop"
    /\ UNCHANGED <<data, handle, parameters, optimizer, now, observed, overflow, ret,
                   snapshot, outputs>>

\* The end of runCalibration(): finalize(), getExtrinsics() on the returned
\* particle's position, and the return of its cost.
rcFinalize ==
    /\ pc = "finalize"
    /\ finalize
    /\ \E H \in {getExtrinsics(Deref(ret').pos, extrinsics_left, extrinsics_right)} :
          /\ arg' = Deref(ret').pos
          /\ ok' = H.ok
          /\ extrinsics_left' = H.Hl
          /\ extrinsics_right' = H.Hr
    /\ result' = Deref(ret').cost
    /\ pc' = "done"
    /\ UNCHANGED <<yields, data, handle, parameters, optimizer, now, observed, overflow, cnt>>

\* ------------------------------------------- a direct user of the Optimizer

\* Optimizer swarm(data).
apiConstruct ==
    /\ pc = "idle"
    /\ Populated(data)
    /\ pc' = "new"
    /\ UNCHANGED <<yields, data, handle, parameters, optimizer, now, observed, overflow, cnt, ret,
                   snapshot, outputs>>

\* swarm.getParameters() = ..., before init().
apiConfigure ==
    /\ pc = "new"
    /\ pc' = "configured"
    /\ parameters' \in ParameterSet
    /\ UNCHANGED <<yields, data, handle, optimizer, now, observed, overflow, cnt, ret, snapshot,
                   outputs>>

\* swarm.getExtrinsics(v,extrinsics_left,extrinsics_right) on any vector v, by
\* a user of the mapping alone.
apiGetExtrinsics ==
    /\ pc \in {"new", "mapped"}
    /\ \E v \in ArgSet :
          \E H \in {getExtrinsics(v, extrinsics_left, extrinsics_right)} :
              /\ arg' = v
              /\ ok' = H.ok
              /\ extrinsics_left' = H.Hl
              /\ extrinsics_right' = H.Hr
    /\ pc' = "mapped"
    /\ UNCHANGED <<yields, data, handle, parameters, optimizer, now, observed, overflow, cnt, ret,
                   snapshot, result>>

\* swarm.init(), on a new optimizer or on one that has run (at most MaxInits
\* times).
apiInit ==
    /\ pc \in {"new", "configured", "ready", "stopped"}
    /\ inits < MaxInits
    /\ init
    /\ pc' = "ready"
    /\ UNCHANGED <<yields, data, handle, parameters, now, overflow, cnt, ret, snapshot, outputs>>

\* swarm.step(), as long as the last step() returned true (and at most
\* MaxApiSteps times after an init()).
apiStep ==
    /\ pc = "ready"
    /\ iter < MaxApiSteps
    /\ step
    /\ pc' = IF term' THEN "ready" ELSE "stopped"
    /\ UNCHANGED <<yields, data, handle, parameters, cnt, ret, snapshot, outputs>>

\* A finalize() that consumes the samples of the store.
apiFinalizeClearing ==
    /\ pc \in {"ready", "stopped"}
    /\ finalize
    /\ data' = << >>
    /\ handle' = 0
    /\ UNCHANGED <<yields, parameters, optimizer, now, pc, observed, overflow, cnt, outputs>>

\* swarm.finalize(), at any point of a run.
apiFinalize ==
    /\ pc \in {"ready", "stopped"}
    /\ finalize
    /\ UNCHANGED <<yields, data, handle, parameters, optimizer, now, pc, observed, overflow,
                   cnt, outputs>>

Next ==
    \/ addData
    \/ populate
    \/ rcInit
    \/ rcStep
    \/ rcYield
    \/ rcFinalize
    \/ apiConstruct
    \/ apiConfigure
    \/ apiGetExtrinsics
    \/ apiInit
    \/ apiStep
    \/ apiFinalize

Spec == Init /\ [][Next]_vars

\* The sample store alone: records appended and filled by the caller.
StoreNext ==
    \/ addDataStore
    \/ populate

StoreSpec == Init /\ [][StoreNext]_vars

\* The stores runCalibration() is run over on its own: the empty one, and one
\* sample (a half turn of yaw) that some position within LimXYawUpper fits at
\* cost 0.
DriverStores == {<< >>, <<Sample(rpy2dcm(<<0, 0, 2>>))>>}

\* runCalibration() alone, with particles that vary in two dimensions.
DriverInit ==
    /\ data \in DriverStores
    /\ handle = Len(data)
    /\ parameters = DriverParameters
    /\ x = << >> /\ p = << >> /\ g = Particle
    /\ iter = 0 /\ t = 0 /\ t0 = 0
    /\ now = 0
    /\ pc = "idle"
    /\ inits = 0
    /\ term = FALSE
    /\ randomize_print = FALSE
    /\ before = [x |-> << >>, p |-> << >>, g |-> Particle]
    /\ evaluated = << >>
    /\ yields = 0
    /\ overflow = FALSE
    /\ cnt = 0
    /\ ret = NoParticle
    /\ snapshot = Particle
    /\ arg = << >>
    /\ ok = FALSE
    /\ extrinsics_left = EmptyMatrix
    /\ extrinsics_right = EmptyMatrix
    /\ result = 0

DriverNext ==
    \/ rcInit
    \/ rcStep
    \/ rcYield
    \/ rcFinalize

DriverSpec == DriverInit /\ [][DriverNext]_vars

\* ---------------------------------------------------------------- the claims

\* The positions of a swarm lie within the bounds lim.
WithinBounds(xs, lim) ==
    \A i \in 1..Len(xs) : \A j \in 1..Dim :
        lim[j][1] <= xs[i].pos[j] /\ xs[i].pos[j] <= lim[j][2]

\* A step() has completed since the last init().
Stepped == inits >= 1 /\ iter # 0

\* C1: after init() and after every completed step(), re-randomizing or not,
\* the cost of the global best is at most the cost of every personal best.
C1_GlobalBestBelowPersonalBests ==
    \A i \in 1..Len(p) : g.cost <= p[i].cost

\* C1 witness: a step() of a swarm of two or more particles that re-randomized it.
C1_Witness ==
    /\ randomize_print
    /\ Len(p) >= 2
    /\ g.cost < Infinity

\* C2: when lim(j,0) <= lim(j,1) in every dimension, every component of every
\* particle position lies within its bounds after init() and after every step().
C2_PositionsWithinBounds ==
    (\A j \in 1..Dim : parameters.lim[j][1] <= parameters.lim[j][2])
        => WithinBounds(x, parameters.lim)

\* C2 witness: a step() left a particle on a bound with a velocity larger than
\* the whole range of that dimension, so that the clamp acted.
C2_Witness ==
    /\ Stepped
    /\ \E i \in 1..Len(x) : \E j \in 1..Dim :
          /\ parameters.lim[j][1] < parameters.lim[j][2]
          /\ Abs(x[i].vel[j]) > parameters.lim[j][2] - parameters.lim[j][1]
          /\ x[i].pos[j] \in {parameters.lim[j][1], parameters.lim[j][2]}

\* C3: the value step() returns is true exactly when, with the values at the end
\* of the generation, iter < maxIter, g.cost > cost and t < maxT.
C3_StepReturnsContinuation ==
    Stepped =>
        (term <=> (/\ iter < parameters.maxIter
                   /\ g.cost > parameters.cost
                   /\ t < parameters.maxT))

\* C3 witness: a step() returned false because of the elapsed time alone.
C3_Witness ==
    /\ Stepped
    /\ ~term
    /\ iter < parameters.maxIter
    /\ g.cost > parameters.cost
    /\ t >= parameters.maxT

\* C4 as stated: with an empty store and a target cost of 0 the first step()
\* after init() returns false, whatever the other parameters.
C4_FirstStepStops ==
    (Len(data) = 0 /\ parameters.cost = 0 /\ inits >= 1 /\ iter = 1) => ~term

\* C4 amended: ... for a swarm of at least one particle.
C4_FirstStepStopsNonEmptySwarm ==
    (Len(data) = 0 /\ parameters.cost = 0 /\ parameters.numParticles >= 1
        /\ inits >= 1 /\ iter = 1) => ~term

\* C4 witness: such a first step() returned false although neither maxIter nor
\* maxT stops the run.
C4_Witness ==
    /\ Len(data) = 0 /\ parameters.cost = 0 /\ parameters.numParticles >= 2
    /\ parameters.maxIter = IntMax /\ parameters.maxT = Infinity
    /\ inits >= 1 /\ iter = 1
    /\ ~term

\* C5 as stated: in a run (init(), then step() while it returns true) step() is
\* called at most maxIter times, and iter never overflows.
C5_AtMostMaxIterSteps ==
    inits >= 1 => (iter <= parameters.maxIter /\ ~overflow)

\* C5 amended: step() is called at most max(1, maxIter) times (the first call
\* is made whatever maxIter is), the call that reaches that count returns
\* false, and iter never overflows.
C5_AtMostMaxIterOrOneSteps ==
    inits >= 1 =>
        /\ 0 <= iter /\ iter <= Max(1, parameters.maxIter)
        /\ ~overflow
        /\ (Stepped /\ iter >= parameters.maxIter) => ~term

\* C5 witness: runCalibration() with the default maxIter came to its end after
\* IntMax steps.
C5_Witness ==
    /\ pc = "done"
    /\ parameters.maxIter = IntMax
    /\ iter = IntMax
    /\ ~overflow

\* C6 as stated: after every init(), also one that follows an earlier run on the
\* same Optimizer, the global best is a personal best of least cost.
C6_InitGlobalBestIsMinimum ==
    (inits >= 1 /\ iter = 0 /\ Len(p) >= 1) =>
        /\ \E i \in 1..Len(p) : p[i].cost = g.cost /\ p[i].pos = g.pos
        /\ \A j \in 1..Len(p) : g.cost <= p[j].cost

\* C7: a step() that re-randomizes the swarm leaves every personal best and the
\* global best as they were just before the re-randomization.
C7_ScatterKeepsBests ==
    randomize_print => (p = before.p /\ g = before.g)

\* C7 witness: a step() re-randomized the swarm and moved a particle away from
\* the global best.
C7_Witness ==
    /\ randomize_print
    /\ \E i \in 1..Len(x) : x[i].pos # g.pos

\* C8 as stated: the particle finalize() returned keeps the position and cost
\* it had when it was returned.
C8_FinalizeReturnsCopy ==
    ret.kind # "none" =>
        (Deref(ret).pos = snapshot.pos /\ Deref(ret).cost = snapshot.cost)

\* C8 amended: the particle finalize() returned is the Optimizer's global best
\* itself: at all times its position and cost are those of the global best.
C8_FinalizeReturnsGlobalBest ==
    ret.kind # "none" => (Deref(ret).pos = g.pos /\ Deref(ret).cost = g.cost)

\* C8 witness: a step() or init() after finalize() improved the global best.
C8_Witness ==
    /\ ret.kind # "none"
    /\ g.cost < snapshot.cost

\* C9: runCalibration() returns the cost of the global best as it was when
\* step() returned false, which is >= 0; the left output is the transform of
\* the mirrored global best position and the right output that of the position.
C9_RunCalibrationResult ==
    pc = "done" =>
        /\ Stepped /\ ~term
        /\ result = g.cost
        /\ result >= 0
        /\ ok
        /\ extrinsics_left =
              setCol(rpy2dcm(<<g.pos[4], g.pos[5], -g.pos[6]>>), 3,
                     <<-g.pos[1], g.pos[2], g.pos[3]>>)
        /\ extrinsics_right =
              setCol(rpy2dcm(<<g.pos[4], g.pos[5], g.pos[6]>>), 3,
                     <<g.pos[1], g.pos[2], g.pos[3]>>)

\* C9 witness: runCalibration() returned over an empty store with a global best
\* off the plane of symmetry.
C9_Witness ==
    /\ pc = "done"
    /\ Len(data) = 0
    /\ g.pos[1] # 0
    /\ extrinsics_left # extrinsics_right

\* Every position held by the Optimizer has 6 components.
SixComponents ==
    /\ \A i \in 1..Len(x) : Len(x[i].pos) = 6
    /\ \A i \in 1..Len(p) : Len(p[i].pos) = 6
    /\ Len(g.pos) = 6

\* What getExtrinsics() returned to its caller matches the length of its argument.
FlagMatchesLength ==
    pc \in {"mapped", "done"} => (ok <=> Len(arg) >= 6)

\* A call of getExtrinsics() on fewer than 6 components leaves the outputs alone.
FailureKeepsOutputs ==
    (pc' = "mapped" /\ Len(arg') < 6) =>
        (extrinsics_left' = extrinsics_left /\ extrinsics_right' = extrinsics_right)

\* C10: getExtrinsics() on fewer than 6 components returns false and leaves its
\* outputs unmodified, on 6 or more it returns true, and the optimizer and
\* runCalibration() only ever pass positions of 6 components.
C10_GetExtrinsicsFailurePath ==
    /\ [](SixComponents /\ FlagMatchesLength /\ (pc = "done" => (ok /\ Len(arg) = 6)))
    /\ [][FailureKeepsOutputs]_vars

\* C10 witness: a call on fewer than 6 components returned false after an
\* earlier call had filled the outputs.
C10_Witness ==
    /\ pc = "mapped"
    /\ Len(arg) < 6
    /\ ~ok
    /\ extrinsics_left # EmptyMatrix

\* The particles the Optimizer holds, and a freshly constructed one.
Particles ==
    {x[i] : i \in 1..Len(x)} \cup {p[i] : i \in 1..Len(p)} \cup {g, Particle}

\* C11: over an empty store evaluate() sets the cost of any particle, whatever its
\* position and previous cost, to exactly 0 and leaves its position and velocity
\* alone; so every evaluated particle of a run over an empty store has cost 0.
C11_EvaluateEmptyStoreIsZero ==
    /\ \A q \in Particles :
          /\ evaluate(<< >>, q).cost = 0
          /\ evaluate(<< >>, q).pos = q.pos
          /\ evaluate(<< >>, q).vel = q.vel
    /\ (Len(data) = 0 /\ inits >= 1) => \A i \in 1..Len(p) : p[i].cost = 0
    /\ (Len(data) = 0 /\ Stepped) => \A i \in 1..Len(x) : x[i].cost = 0

\* C11 witness: over an empty store the first step() evaluated a particle away
\* from the origin whose cost was +infinity.
C11_Witness ==
    /\ Len(data) = 0
    /\ inits >= 1 /\ iter = 1
    /\ \E i \in 1..Len(x) : x[i].pos # Particle.pos /\ x[i].cost = 0

\* The vector that equals v except for the signs of v[0] and v[5].
Mirrored(v) == [v EXCEPT ![1] = -v[1], ![6] = -v[6]]

\* The 6-vectors of a state: the positions the Optimizer holds and the argument
\* of the caller's last getExtrinsics() call.
SixVectors ==
    {q.pos : q \in Particles} \cup (IF Len(arg) = 6 THEN {arg} ELSE {})

\* C12: for every 6-vector v the Hl of v is the Hr of the vector mirrored in
\* v[0] and v[5], and a second call on v, whatever the outputs hold, yields the
\* same Hl and Hr; the caller's outputs are those matrices.
C12_GetExtrinsicsMirror ==
    /\ \A v \in SixVectors :
          LET first  == getExtrinsics(v, EmptyMatrix, EmptyMatrix)
              second == getExtrinsics(v, first.Hl, first.Hr)
              other  == getExtrinsics(v, extrinsics_left, extrinsics_right)
          IN  /\ first.Hl = getExtrinsics(Mirrored(v), EmptyMatrix, EmptyMatrix).Hr
              /\ first.Hr = getExtrinsics(Mirrored(v), EmptyMatrix, EmptyMatrix).Hl
              /\ second = first
              /\ other = first
    /\ (pc = "mapped" /\ Len(arg) = 6) =>
          /\ extrinsics_left = getExtrinsics(Mirrored(arg), EmptyMatrix, EmptyMatrix).Hr
          /\ extrinsics_right = getExtrinsics(Mirrored(arg), EmptyMatrix, EmptyMatrix).Hl

\* C12 witness: a call on a 6-vector with x[0] and x[5] both nonzero, whose two
\* transforms differ in rotation and in translation.
C12_Witness ==
    /\ pc = "mapped" /\ ok
    /\ Len(arg) = 6 /\ arg[1] # 0 /\ arg[6] # 0
    /\ getCol(extrinsics_left, 3) # getCol(extrinsics_right, 3)
    /\ getCol(extrinsics_left, 0) # getCol(extrinsics_right, 0)

\* An addData() step: the only step that changes the number of records.
AddDataAppends ==
    Len(data') # Len(data) =>
        /\ Len(data') = Len(data) + 1
        /\ SubSeq(data', 1, Len(data)) = data
        /\ data'[Len(data')] = CalibrationData
        /\ handle' = Len(data')

\* A write through the handle changes the record the handle refers to, the last
\* one of the store, and no other.
HandleWritesLast ==
    (Len(data') = Len(data) /\ data' # data) =>
        /\ handle = Len(data)
        /\ \A i \in 1..(Len(data) - 1) : data'[i] = data[i]

\* C13: addData() adds exactly one record, places it last, leaves the records
\* appended before as they were, and its handle refers to that last record of
\* the store.
C13_AddDataAppendOnly ==
    /\ [](handle = Len(data))
    /\ [][AddDataAppends /\ HandleWritesLast]_vars

\* C13 witness: a fourth record appended after three filled, different ones,
\* then filled through the handle.
C13_Witness ==
    /\ Len(data) = 4 /\ handle = 4
    /\ \A i \in 1..4 : data[i] \in SampleSet
    /\ data[1] # data[2] /\ data[2] = data[3] /\ data[4] # data[3]

\* A step of the Optimizer or of runCalibration(): it changes something other
\* than the store and the caller's handle on it.
OptimizerActed ==
    <<parameters, optimizer, observed, pc, cnt, yields, ret, snapshot, outputs, now,
      overflow>>' #
    <<parameters, optimizer, observed, pc, cnt, yields, ret, snapshot, outputs, now,
      overflow>>

\* C14: no init(), step() (with the evaluate() calls of both), finalize() or
\* getExtrinsics() call and no part of runCalibration() adds, removes or
\* modifies a sample record.
C14_StoreReadOnly ==
    [][OptimizerActed => data' = data]_vars

\* C14 witness: runCalibration() went through its scatter and returned over a
\* store that holds a sample.
C14_Witness ==
    /\ pc = "done"
    /\ Len(data) >= 1
    /\ iter > StagnationPeriod

\* The cost evaluate() gives the position of a particle over the store.
CostOf(particle) == evaluate(data, particle).cost

\* C15 as stated: in every state after init() the cost field of a live particle
\* is +infinity or the cost of its current position, and it is not negative.
C15_LiveCostIsCostOfPosition ==
    inits >= 1 =>
        \A i \in 1..Len(x) :
            /\ x[i].cost >= 0
            /\ x[i].cost = Infinity \/ x[i].cost = CostOf(x[i])

\* C15 amended: the cost field of a live particle is +infinity after init(),
\* the cost of its position after a step() that did not re-randomize, and after
\* a step() that re-randomized the cost of the position it had before the
\* re-randomization; it is not negative.
C15_LiveCostIsLastEvaluated ==
    inits >= 1 =>
        \A i \in 1..Len(x) :
            /\ x[i].cost >= 0
            /\ x[i].cost = (IF ~Stepped THEN Infinity
                            ELSE IF randomize_print THEN CostOf(before.x[i])
                            ELSE CostOf(x[i]))

\* C15 witness: a step() re-randomized the swarm and left a particle with the
\* cost of the position it had, which is not the cost of the one it has.
C15_Witness ==
    /\ Stepped /\ randomize_print
    /\ \E i \in 1..Len(x) :
          /\ x[i].pos # before.x[i].pos
          /\ x[i].cost = CostOf(before.x[i])
          /\ x[i].cost # CostOf(x[i])
          /\ x[i].cost < Infinity

\* C16 as stated: in a run of runCalibration() in which step() is called n times
\* the driver yields floor(n/10) times, each time directly after a step whose
\* ordinal is a multiple of 10.
C16_YieldEveryTenSteps ==
    /\ pc = "yield" => (iter > 0 /\ iter % YieldPeriod = 0)
    /\ pc = "done" => yields = iter \div YieldPeriod

\* C16 amended: the driver yields once for every 10 steps that returned true:
\* floor((n-1)/10) times in a run of n steps, each time directly after a step
\* whose ordinal is a multiple of 10 and that returned true, and never after
\* the last step.
C16_YieldEveryTenContinuingSteps ==
    /\ ~overflow
    /\ pc = "loop" => (yields = iter \div YieldPeriod /\ cnt = iter % YieldPeriod)
    /\ pc = "yield" =>
          /\ iter > 0 /\ iter % YieldPeriod = 0
          /\ term
          /\ yields = (iter \div YieldPeriod) - 1
    /\ pc \in {"finalize", "done"} =>
          /\ ~term
          /\ yields = (iter - 1) \div YieldPeriod

\* C16 witness: runCalibration() returned after exactly 20 steps and one yield.
C16_Witness ==
    /\ pc = "done"
    /\ iter = 2 * YieldPeriod
    /\ yields = 1

\* C17: a step() re-randomizes the swarm if and only if the iteration counter,
\* after its increment, is a multiple of 100 and the mean distance of the moved
\* and clamped positions from the global best is below 0.005 (on the grid: every
\* particle sits on the global best).
C17_ScatterIffStagnant ==
    Stepped =>
        /\ randomize_print <=>
              (/\ iter % StagnationPeriod = 0
               /\ meanDist(before.x, before.g) < StagnationThreshold)
        /\ randomize_print =>
              \A i \in 1..Len(before.x) : before.x[i].pos = before.g.pos
        /\ (iter % StagnationPeriod # 0) => x = before.x

\* C17 witness: the step() that brought the counter to 100 found every particle
\* on the global best and moved one elsewhere.
C17_Witness ==
    /\ Stepped /\ randomize_print
    /\ iter = StagnationPeriod
    /\ Len(x) >= 2
    /\ \E i \in 1..Len(x) : x[i].pos # before.x[i].pos

\* The least of the first k costs of a sequence of costs, +infinity for none.
RECURSIVE LeastOf(_, _)
LeastOf(costs, k) ==
    IF k = 0 THEN Infinity ELSE Min(costs[k], LeastOf(costs, k - 1))

\* C18: after init() and after every step() of a run on a fresh Optimizer, the
\* cost of each personal best is the least cost evaluate() returned for that
\* particle since init(), and the cost of the global best is the least cost
\* evaluate() returned for any particle.
C18_BestsAreLeastEvaluated ==
    inits = 1 =>
        /\ Len(evaluated) = Len(p)
        /\ \A i \in 1..Len(p) : p[i].cost = evaluated[i]
        /\ g.cost = LeastOf(evaluated, Len(evaluated))

\* C18 witness: a run of three steps whose last step found, with the second
\* particle, a cost below every cost evaluated before: the run went on after
\* init() and two steps, and the global best is that particle's personal best.
C18_Witness ==
    /\ pc = "done" /\ inits = 1
    /\ iter = 3
    /\ Len(p) = 2
    /\ g = p[2]
    /\ g.cost = 0
    /\ p[1].cost > 0

\* A step() call: the counter changes and no init() is made.
StepTaken == inits' = inits /\ iter' # iter

\* Across a step() no best record gets a higher cost, and one whose position
\* changes gets a strictly lower cost.
BestsOnlyImprove ==
    StepTaken =>
        /\ g'.cost <= g.cost
        /\ (g'.pos # g.pos) => (g'.cost < g.cost)
        /\ Len(p') = Len(p)
        /\ \A i \in 1..Len(p) :
              /\ p'[i].cost <= p[i].cost
              /\ (p'[i].pos # p[i].pos) => (p'[i].cost < p[i].cost)

\* The cost stored in a best record is the cost evaluate() gives the position
\* stored in it; a global best that no particle has replaced yet is Particle().
BestsAreConsistent ==
    /\ \A i \in 1..Len(p) : p[i].cost = CostOf(p[i])
    /\ g = Particle \/ g.cost = CostOf(g)

\* C19: across step() calls the costs of the global best and of every personal
\* best never increase, a best record's position changes only with a strict
\* decrease of its cost, and at all times the cost of a best record is the cost
\* of the position stored in that record, wherever the live particle has gone.
C19_BestsConsistentAndImproving ==
    /\ []BestsAreConsistent
    /\ [][BestsOnlyImprove]_vars

\* C19 witness: a live particle has left its personal best for a position of
\* higher cost, on a swarm that a step() has re-randomized.
C19_Witness ==
    /\ Stepped /\ randomize_print
    /\ \E i \in 1..Len(x) :
          /\ x[i].pos # p[i].pos
          /\ CostOf(x[i]) > p[i].cost
          /\ p[i].cost = CostOf(p[i])

====
